---- MODULE Spec2Model ----
(***************************************************************************)
(* Model of ferus' expression front end (src/src/expr.rs): the grammar     *)
(* engine prog/expn/disj/conj/cmp/add/mult/nega/atom, written with the     *)
(* combine parser combinators, and the two renderers of the AST,           *)
(* Expr::pretty (box drawing) and Display for Expr (indented outline).     *)
(***************************************************************************)
EXTENDS Integers, Sequences, FiniteSets, TLC

(***************************************************************************)
(* Tokens (crate::lexer::Token as expr.rs matches on it).                  *)
(***************************************************************************)
Tok(k, s, n) == [k |-> k, s |-> s, n |-> n]

Name(s) == Tok("Name", s, 0)

LitTok(s) == Tok("Lit", s, 0)

Space(n) == Tok("Space", "", n)

Keyword(r) == Tok("Keyword", r, 0)

Paren(d) == Tok("Paren", d, 0)

EndOfFile == Tok("EndOfFile", "", 0)

(***************************************************************************)
(* The AST, enum Expr.  A literal is kept as its textual rendering.        *)
(***************************************************************************)
Var(n) == [t |-> "Var", name |-> n]

Lit(l) == [t |-> "Lit", lit |-> l]

Unary(o, c) == [t |-> "Unary", operation |-> o, child |-> c]

Binary(l, o, r) == [t |-> "Binary", left |-> l, operation |-> o, right |-> r]

IfThenElse(c, i, e) ==
    [t |-> "IfThenElse", condition |-> c, if_branch |-> i, else_branch |-> e]

Let(n, b, c) == [t |-> "Let", name |-> n, binder |-> b, child |-> c]

NoExpr == [t |-> "None"]

(***************************************************************************)
(* combine.  A parser runs on the token stream toks from position p (the   *)
(* 1-based index of the next token) and returns [ok, v, pos, committed]:   *)
(* ok = TRUE : success with value v, the next position is pos; it consumed *)
(*             input exactly when pos moved (ConsumedOk, else EmptyOk);    *)
(* ok = FALSE: failure; committed = TRUE is ConsumedErr (input was         *)
(*             consumed before the failure, no alternative is tried),      *)
(*             committed = FALSE is EmptyErr (the input is reset to where  *)
(*             the parser started and an alternative may run).             *)
(* A sequence of parsers fails with ConsumedErr as soon as one of its      *)
(* earlier members consumed input; a choice runs its next alternative only *)
(* after an EmptyErr.  The result of a parser of the grammar is bound by   *)
(*     CHOOSE out \in { .. r .. : r \in {result} } : TRUE                  *)
(* so that it is computed once.                                            *)
(***************************************************************************)
Ok(v, p) == [ok |-> TRUE, v |-> v, pos |-> p, committed |-> FALSE]

Err(c, p) == [ok |-> FALSE, v |-> NoExpr, pos |-> p, committed |-> c]

\* The failure r of a member of a sequence: a ConsumedErr if the members
\* before it consumed input.
seq_err(r, consumed) == Err(r.committed \/ consumed, r.pos)

\* attempt(f): a failure of f is an EmptyErr at the start p0.
attempt(p0, r) ==
    CHOOSE out \in { IF x.ok THEN x ELSE Err(FALSE, p0) : x \in {r} } : TRUE

(***************************************************************************)
(* Lexical helpers.  The closure of a satisfy / satisfy_map is a record:   *)
(* m says which tokens it accepts and what it maps them to, t is the token *)
(* an "eq" closure compares with, cases maps each Reserved a "keyword"     *)
(* closure accepts to the operator it yields.                              *)
(***************************************************************************)
Closure(m, t, cases) == [m |-> m, t |-> t, cases |-> cases]

accepts(f, tk) ==
    CASE f.m = "eq"      -> tk = f.t
      [] f.m = "name"    -> tk.k = "Name"
      [] f.m = "var"     -> tk.k = "Name"
      [] f.m = "lit"     -> tk.k = "Lit"
      [] f.m = "space"   -> tk.k = "Space" /\ 0 < tk.n
      [] f.m = "keyword" -> tk.k = "Keyword" /\ tk.s \in DOMAIN f.cases

mapped(f, tk) ==
    CASE f.m = "eq"      -> <<>>
      [] f.m = "name"    -> tk.s
      [] f.m = "var"     -> Var(tk.s)
      [] f.m = "lit"     -> Lit(tk.s)
      [] f.m = "space"   -> <<>>
      [] f.m = "keyword" -> f.cases[tk.s]

\* The one-token parser of a closure.
satisfy(toks, p, f) ==
    IF p <= Len(toks) /\ accepts(f, toks[p])
    THEN Ok(mapped(f, toks[p]), p + 1)
    ELSE Err(FALSE, p)

token(t) == Closure("eq", t, <<>>)

name == Closure("name", <<>>, <<>>)

space == Closure("space", <<>>, <<>>)

\* optional(space()): the position after it.
optional_space(toks, p) == IF satisfy(toks, p, space).ok THEN p + 1 ELSE p

\* lex(f) is between(optional(space()), optional(space()), f): a failure
\* of f after whitespace was consumed is a ConsumedErr.
\* lex(f) for a one-token parser f.
lex(toks, p, f) ==
    CHOOSE out \in
      { CHOOSE out2 \in
          { IF r.ok THEN Ok(r.v, optional_space(toks, r.pos))
            ELSE seq_err(r, p1 > p)
            : r \in {satisfy(toks, p1, f)} } : TRUE
        : p1 \in {optional_space(toks, p)} } : TRUE

(***************************************************************************)
(* The grammar engine.                                                     *)
(***************************************************************************)
\* The closure every folding level maps its operator to:
\* move |left, right| Expr::Binary { left, operation: op, right }.
fold(l, op, r) == Binary(l, op, r)

disj_op == Closure("keyword", <<>>, "OrElse" :> "OrElse")

conj_op == Closure("keyword", <<>>, "AndAlso" :> "AndAlso")

cmp_op == Closure("keyword", <<>>, "Equal" :> "Equal" @@ "LessThan" :> "LessThan")

add_op == Closure("keyword", <<>>, "Add" :> "Add" @@ "Sub" :> "Sub")

\* A variant of mult_op that takes (+) at the multiplicative level too.
mult_op_with_add ==
    Closure("keyword", <<>>, "Mult" :> "Mult" @@ "Div" :> "Div" @@ "Mod" :> "Mod"
                                 @@ "Add" :> "Add")

mult_op ==
    Closure("keyword", <<>>, "Mult" :> "Mult" @@ "Div" :> "Div" @@ "Mod" :> "Mod")

nega_op == Closure("keyword", <<>>, "Not" :> "Not")

RECURSIVE expn(_, _), lex_expn(_, _), let_val(_, _), if_then_else(_, _),
          disj(_, _), disj_chain(_, _, _), conj(_, _), conj_chain(_, _, _),
          cmp(_, _), cmp_binary(_, _), add(_, _), add_chain(_, _, _),
          mult(_, _), mult_chain(_, _, _), nega(_, _), unary(_, _),
          atom(_, _), nested(_, _)

\* lex(expn())
lex_expn(toks, p) ==
    CHOOSE out \in
      { CHOOSE out2 \in
          { IF r.ok THEN Ok(r.v, optional_space(toks, r.pos))
            ELSE seq_err(r, p1 > p)
            : r \in {expn(toks, p1)} } : TRUE
        : p1 \in {optional_space(toks, p)} } : TRUE

prog(toks) ==
    CHOOSE out \in
      { IF ~r.ok THEN r
        ELSE IF satisfy(toks, r.pos, token(EndOfFile)).ok
        THEN Ok(r.v, r.pos + 1)
        ELSE Err(r.pos > 1, r.pos)
        : r \in {expn(toks, 1)} } : TRUE

\* let val <name> = : the members of the let form before the binder; the
\* value is the name.
let_head(toks, p) ==
    LET k1 == lex(toks, p, token(Keyword("Let")))
        k2 == lex(toks, k1.pos, token(Keyword("Val")))
        k3 == lex(toks, k2.pos, name)
        k4 == lex(toks, k3.pos, token(Keyword("Equal")))
    IN  IF ~k1.ok THEN k1
        ELSE IF ~k2.ok THEN seq_err(k2, TRUE)
        ELSE IF ~k3.ok THEN seq_err(k3, TRUE)
        ELSE IF ~k4.ok THEN seq_err(k4, TRUE)
        ELSE Ok(k3.v, k4.pos)

\* let val <name> = <expn> in <expn> end
let_val(toks, p) ==
    CHOOSE out \in
      { IF ~head.ok THEN head
        ELSE CHOOSE out2 \in
          { IF ~binder.ok THEN seq_err(binder, TRUE)
            ELSE CHOOSE out3 \in
              { IF ~in.ok THEN seq_err(in, TRUE)
                ELSE CHOOSE out4 \in
                  { IF ~child.ok THEN seq_err(child, TRUE)
                    ELSE IF satisfy(toks, child.pos, token(Keyword("End"))).ok
                    THEN Ok(Let(head.v, binder.v, child.v), child.pos + 1)
                    ELSE Err(TRUE, child.pos)
                    : child \in {lex_expn(toks, in.pos)} } : TRUE
                : in \in {lex(toks, binder.pos, token(Keyword("In")))} } : TRUE
            : binder \in {lex_expn(toks, head.pos)} } : TRUE
        : head \in {let_head(toks, p)} } : TRUE

\* A variant of else_branch that parses the else branch one level down.
else_branch_disj(toks, p) == disj(toks, p)

\* The parser of the else branch: expn(), not lexed.
else_branch(toks, p) == expn(toks, p)

\* if <expn> then <expn> else <expn>
if_then_else(toks, p) ==
    CHOOSE out \in
      { IF ~if.ok THEN if
        ELSE CHOOSE out2 \in
          { IF ~condition.ok THEN seq_err(condition, TRUE)
            ELSE CHOOSE out3 \in
              { IF ~then.ok THEN seq_err(then, TRUE)
                ELSE CHOOSE out4 \in
                  { IF ~if_branch.ok THEN seq_err(if_branch, TRUE)
                    ELSE CHOOSE out5 \in
                      { IF ~else.ok THEN seq_err(else, TRUE)
                        ELSE CHOOSE out6 \in
                          { IF ~e.ok THEN seq_err(e, TRUE)
                            ELSE Ok(IfThenElse(condition.v, if_branch.v, e.v),
                                    e.pos)
                            : e \in {else_branch(toks, else.pos)} } : TRUE
                        : else \in {lex(toks, if_branch.pos,
                                        token(Keyword("Else")))} } : TRUE
                    : if_branch \in {lex_expn(toks, then.pos)} } : TRUE
                : then \in {lex(toks, condition.pos, token(Keyword("Then")))}
              } : TRUE
            : condition \in {lex_expn(toks, if.pos)} } : TRUE
        : if \in {lex(toks, p, token(Keyword("If")))} } : TRUE

expn(toks, p) ==
    CHOOSE out \in
      { IF l.ok \/ l.committed THEN l
        ELSE CHOOSE out2 \in
          { IF i.ok \/ i.committed THEN i ELSE disj(toks, p)
            : i \in {if_then_else(toks, p)} } : TRUE
        : l \in {let_val(toks, p)} } : TRUE

\* chainl1's loop at the disj level: acc is the value folded so far, p the
\* position after it.  (op, operand) runs as a sequence: its EmptyErr ends
\* the chain, its ConsumedErr fails it.  The operator is not lexed.
disj_chain(toks, acc, p) ==
    CHOOSE out \in
      { IF ~op.ok THEN IF op.committed THEN op ELSE Ok(acc, p)
        ELSE CHOOSE out2 \in
          { IF r.ok THEN disj_chain(toks, fold(acc, op.v, r.v), r.pos)
            ELSE seq_err(r, TRUE)
            : r \in {conj(toks, op.pos)} } : TRUE
        : op \in {satisfy(toks, p, disj_op)} } : TRUE

disj(toks, p) ==
    CHOOSE out \in
      { IF r.ok THEN disj_chain(toks, r.v, r.pos) ELSE r
        : r \in {conj(toks, p)} } : TRUE

conj_chain(toks, acc, p) ==
    CHOOSE out \in
      { IF ~op.ok THEN IF op.committed THEN op ELSE Ok(acc, p)
        ELSE CHOOSE out2 \in
          { IF r.ok THEN conj_chain(toks, fold(acc, op.v, r.v), r.pos)
            ELSE seq_err(r, TRUE)
            : r \in {cmp(toks, op.pos)} } : TRUE
        : op \in {lex(toks, p, conj_op)} } : TRUE

conj(toks, p) ==
    CHOOSE out \in
      { IF r.ok THEN conj_chain(toks, r.v, r.pos) ELSE r
        : r \in {cmp(toks, p)} } : TRUE

\* add, a comparison operator, add: the struct_parser of cmp.
cmp_binary(toks, p) ==
    CHOOSE out \in
      { IF ~left.ok THEN left
        ELSE CHOOSE out2 \in
          { IF ~op.ok THEN seq_err(op, left.pos > p)
            ELSE CHOOSE out3 \in
              { IF right.ok THEN Ok(Binary(left.v, op.v, right.v), right.pos)
                ELSE seq_err(right, TRUE)
                : right \in {add(toks, op.pos)} } : TRUE
            : op \in {lex(toks, left.pos, cmp_op)} } : TRUE
        : left \in {add(toks, p)} } : TRUE

RECURSIVE cmp_chain(_, _, _)
\* A variant of cmp that folds comparisons like the other binary levels.
cmp_chain(toks, acc, p) ==
    CHOOSE out \in
      { IF ~op.ok THEN IF op.committed THEN op ELSE Ok(acc, p)
        ELSE CHOOSE out2 \in
          { IF r.ok THEN cmp_chain(toks, Binary(acc, op.v, r.v), r.pos)
            ELSE seq_err(r, TRUE)
            : r \in {add(toks, op.pos)} } : TRUE
        : op \in {lex(toks, p, cmp_op)} } : TRUE

cmp_chainl1(toks, p) ==
    CHOOSE out \in
      { IF r.ok THEN cmp_chain(toks, r.v, r.pos) ELSE r
        : r \in {add(toks, p)} } : TRUE

cmp(toks, p) ==
    CHOOSE out \in
      { IF b.ok \/ b.committed THEN b ELSE add(toks, p)
        : b \in {attempt(p, cmp_binary(toks, p))} } : TRUE

RECURSIVE add_chainr(_, _, _)
\* A variant of add_chain that folds to the right, like chainr1.
add_chainr(toks, acc, p) ==
    CHOOSE out \in
      { IF ~op.ok THEN IF op.committed THEN op ELSE Ok(acc, p)
        ELSE CHOOSE out2 \in
          { IF ~r.ok THEN seq_err(r, TRUE)
            ELSE CHOOSE out3 \in
              { IF rest.ok THEN Ok(fold(acc, op.v, rest.v), rest.pos) ELSE rest
                : rest \in {add_chainr(toks, r.v, r.pos)} } : TRUE
            : r \in {mult(toks, op.pos)} } : TRUE
        : op \in {lex(toks, p, add_op)} } : TRUE

add_chain(toks, acc, p) ==
    CHOOSE out \in
      { IF ~op.ok THEN IF op.committed THEN op ELSE Ok(acc, p)
        ELSE CHOOSE out2 \in
          { IF r.ok THEN add_chain(toks, fold(acc, op.v, r.v), r.pos)
            ELSE seq_err(r, TRUE)
            : r \in {mult(toks, op.pos)} } : TRUE
        : op \in {lex(toks, p, add_op)} } : TRUE

add(toks, p) ==
    CHOOSE out \in
      { IF r.ok THEN add_chain(toks, r.v, r.pos) ELSE r
        : r \in {mult(toks, p)} } : TRUE

mult_chain(toks, acc, p) ==
    CHOOSE out \in
      { IF ~op.ok THEN IF op.committed THEN op ELSE Ok(acc, p)
        ELSE CHOOSE out2 \in
          { IF r.ok THEN mult_chain(toks, fold(acc, op.v, r.v), r.pos)
            ELSE seq_err(r, TRUE)
            : r \in {nega(toks, op.pos)} } : TRUE
        : op \in {lex(toks, p, mult_op)} } : TRUE

mult(toks, p) ==
    CHOOSE out \in
      { IF r.ok THEN mult_chain(toks, r.v, r.pos) ELSE r
        : r \in {nega(toks, p)} } : TRUE

\* A variant of unary_child that lets not apply to a nega.
unary_child_nega(toks, p) == nega(toks, p)

\* The parser of the operand of not: atom().
unary_child(toks, p) == atom(toks, p)

\* not, a mandatory whitespace run, atom: the struct_parser of nega.
unary(toks, p) ==
    IF ~satisfy(toks, p, nega_op).ok THEN Err(FALSE, p)
    ELSE IF ~satisfy(toks, p + 1, space).ok THEN Err(TRUE, p + 1)
    ELSE CHOOSE out \in
      { IF child.ok
        THEN Ok(Unary(satisfy(toks, p, nega_op).v, child.v), child.pos)
        ELSE seq_err(child, TRUE)
        : child \in {unary_child(toks, p + 2)} } : TRUE

nega(toks, p) ==
    CHOOSE out \in
      { IF u.ok \/ u.committed THEN u ELSE atom(toks, p)
        : u \in {attempt(p, unary(toks, p))} } : TRUE

variable == Closure("var", <<>>, <<>>)

literal == Closure("lit", <<>>, <<>>)

\* ( <expn> ), every member lexed.
nested(toks, p) ==
    CHOOSE out \in
      { IF ~open.ok THEN open
        ELSE CHOOSE out2 \in
          { IF ~r.ok THEN seq_err(r, TRUE)
            ELSE CHOOSE out3 \in
              { IF close.ok THEN Ok(r.v, close.pos) ELSE seq_err(close, TRUE)
                : close \in {lex(toks, r.pos, token(Paren("Right")))} } : TRUE
            : r \in {lex_expn(toks, open.pos)} } : TRUE
        : open \in {lex(toks, p, token(Paren("Left")))} } : TRUE

atom(toks, p) ==
    CHOOSE out \in
      { IF v.ok \/ v.committed THEN v
        ELSE CHOOSE out2 \in
          { IF l.ok \/ l.committed THEN l ELSE nested(toks, p)
            : l \in {lex(toks, p, literal)} } : TRUE
        : v \in {lex(toks, p, variable)} } : TRUE

(***************************************************************************)
(* Source expressions.  A source expression is a derivation tree of the   *)
(* grammar in the comment above prog (lines 245-255): an Expr whose       *)
(* parenthesised sub-expressions are kept as Group nodes.  Its leaves are *)
(* written Leaf while it is edited and named in reading order when it is  *)
(* handed to the lexer.                                                    *)
(***************************************************************************)
Leaf == [t |-> "Leaf"]

Group(e) == [t |-> "Group", e |-> e]

\* The grammar level of an operator, and ranks: the higher, the tighter.
LevelOf(op) ==
    CASE op = "OrElse" -> "disj"
      [] op = "AndAlso" -> "conj"
      [] op \in {"Equal", "LessThan"} -> "cmp"
      [] op \in {"Add", "Sub"} -> "add"
      [] op \in {"Mult", "Div", "Mod"} -> "mult"

LevelRank(level) ==
    CASE level = "expn" -> 1
      [] level = "disj" -> 2
      [] level = "conj" -> 3
      [] level = "cmp"  -> 4
      [] level = "add"  -> 5
      [] level = "mult" -> 6
      [] level = "nega" -> 7
      [] level = "atom" -> 8

\* The tightest nonterminal that derives a tree with this root.
Rank(e) ==
    CASE e.t \in {"Leaf", "Var", "Lit", "Group"} -> LevelRank("atom")
      [] e.t = "Unary" -> LevelRank("nega")
      [] e.t = "Binary" -> LevelRank(LevelOf(e.operation))
      [] e.t \in {"IfThenElse", "Let"} -> LevelRank("expn")

RECURSIVE Derivable(_)
\* e is a derivation tree of <expn>.
Derivable(e) ==
    CASE e.t \in {"Leaf", "Var", "Lit"} -> TRUE
      [] e.t = "Group" -> Derivable(e.e)
      [] e.t = "Unary" -> Derivable(e.child) /\ Rank(e.child) >= LevelRank("atom")
      [] e.t = "Binary" ->
            /\ Derivable(e.left) /\ Derivable(e.right)
            /\ IF LevelOf(e.operation) = "cmp"
               THEN /\ Rank(e.left) >= LevelRank("add")
                    /\ Rank(e.right) >= LevelRank("add")
               ELSE /\ Rank(e.left) >= Rank(e)
                    /\ Rank(e.right) >= Rank(e) + 1
      [] e.t = "IfThenElse" ->
            Derivable(e.condition) /\ Derivable(e.if_branch)
                /\ Derivable(e.else_branch)
      [] e.t = "Let" -> Derivable(e.binder) /\ Derivable(e.child)

RECURSIVE Height(_)
Height(e) ==
    CASE e.t \in {"Leaf", "Var", "Lit"} -> 0
      [] e.t = "Group" -> 1 + Height(e.e)
      [] e.t = "Unary" -> 1 + Height(e.child)
      [] e.t = "Binary" ->
            1 + (IF Height(e.left) > Height(e.right) THEN Height(e.left)
                 ELSE Height(e.right))
      [] e.t = "IfThenElse" ->
            1 + (LET h == {Height(e.condition), Height(e.if_branch),
                           Height(e.else_branch)}
                 IN  CHOOSE m \in h : \A x \in h : x <= m)
      [] e.t = "Let" ->
            1 + (IF Height(e.binder) > Height(e.child) THEN Height(e.binder)
                 ELSE Height(e.child))

RECURSIVE Leaves(_)
\* The number of leaves of a source expression.
Leaves(e) ==
    CASE e.t \in {"Leaf", "Var", "Lit"} -> 1
      [] e.t = "Group" -> Leaves(e.e)
      [] e.t = "Unary" -> Leaves(e.child)
      [] e.t = "Binary" -> Leaves(e.left) + Leaves(e.right)
      [] e.t = "IfThenElse" ->
            Leaves(e.condition) + Leaves(e.if_branch) + Leaves(e.else_branch)
      [] e.t = "Let" -> Leaves(e.binder) + Leaves(e.child)

Names == <<"a", "b", "c", "d", "e", "f", "g", "h", "i", "j", "k", "l">>

Numerals == <<"1", "2", "3", "4", "5", "6", "7", "8", "9", "10", "11", "12">>

\* The k-th leaf in reading order, as a name or as a literal.
LeafAt(kind, k) == IF kind = "name" THEN Var(Names[k]) ELSE Lit(Numerals[k])

RECURSIVE Label(_, _, _)
\* e with its leaves named in reading order, the first one being the k-th.
Label(e, kind, k) ==
    CASE e.t = "Leaf" -> LeafAt(kind, k)
      [] e.t = "Group" -> Group(Label(e.e, kind, k))
      [] e.t = "Unary" -> Unary(e.operation, Label(e.child, kind, k))
      [] e.t = "Binary" ->
            Binary(Label(e.left, kind, k), e.operation,
                   Label(e.right, kind, k + Leaves(e.left)))
      [] e.t = "IfThenElse" ->
            IfThenElse(Label(e.condition, kind, k),
                       Label(e.if_branch, kind, k + Leaves(e.condition)),
                       Label(e.else_branch, kind,
                             k + Leaves(e.condition) + Leaves(e.if_branch)))
      [] e.t = "Let" ->
            Let(e.name, Label(e.binder, kind, k),
                Label(e.child, kind, k + Leaves(e.binder)))

RECURSIVE Erase(_)
\* The Expr a source expression denotes: its Group nodes dropped.
Erase(e) ==
    CASE e.t \in {"Var", "Lit"} -> e
      [] e.t = "Group" -> Erase(e.e)
      [] e.t = "Unary" -> Unary(e.operation, Erase(e.child))
      [] e.t = "Binary" -> Binary(Erase(e.left), e.operation, Erase(e.right))
      [] e.t = "IfThenElse" ->
            IfThenElse(Erase(e.condition), Erase(e.if_branch),
                       Erase(e.else_branch))
      [] e.t = "Let" -> Let(e.name, Erase(e.binder), Erase(e.child))

RECURSIVE Words(_)
\* The non-whitespace tokens of a source expression, in order.
Words(e) ==
    CASE e.t = "Var" -> <<Name(e.name)>>
      [] e.t = "Lit" -> <<LitTok(e.lit)>>
      [] e.t = "Group" ->
            <<Paren("Left")>> \o Words(e.e) \o <<Paren("Right")>>
      [] e.t = "Unary" -> <<Keyword(e.operation)>> \o Words(e.child)
      [] e.t = "Binary" ->
            Words(e.left) \o <<Keyword(e.operation)>> \o Words(e.right)
      [] e.t = "IfThenElse" ->
            <<Keyword("If")>> \o Words(e.condition) \o <<Keyword("Then")>>
                \o Words(e.if_branch) \o <<Keyword("Else")>>
                \o Words(e.else_branch)
      [] e.t = "Let" ->
            <<Keyword("Let"), Keyword("Val"), Name(e.name), Keyword("Equal")>>
                \o Words(e.binder) \o <<Keyword("In")>> \o Words(e.child)
                \o <<Keyword("End")>>

\* What stands in a gap between two tokens: nothing, a whitespace-run
\* token of length 0, or one of positive length.
Gap(g) ==
    CASE g = "none" -> <<>>
      [] g = "zero" -> <<Space(0)>>
      [] g = "one"  -> <<Space(1)>>

\* A layout says what stands in each gap of a stream of n words.  Gap 0 is
\* before the first word, gap k between words k and k+1, gap n before the
\* end-of-input token.  Every inner gap holds layout.gap, the outer two
\* nothing, except the one gap layout.at, which holds layout.fill.
Layout(gap, at, fill) == [gap |-> gap, at |-> at, fill |-> fill]

GapAt(layout, k, n) ==
    IF k = layout.at THEN layout.fill
    ELSE IF 0 < k /\ k < n THEN layout.gap
    ELSE "none"

RECURSIVE Interleave(_, _, _)
\* The words ws from the k-th on, each followed by its gap.
Interleave(ws, layout, k) ==
    IF k > Len(ws) THEN <<>>
    ELSE <<ws[k]>> \o Gap(GapAt(layout, k, Len(ws)))
             \o Interleave(ws, layout, k + 1)

\* The token stream of a source expression under a layout.
Stream(e, layout) ==
    LET ws == Words(e)
    IN  Gap(GapAt(layout, 0, Len(ws))) \o Interleave(ws, layout, 1)
            \o <<EndOfFile>>

Tight == Layout("none", 0, "none")

Spaced == Layout("one", 0, "none")

Fills == {"none", "zero", "one"}

Kinds == {"name", "lit"}

BinaryOps == {"Add", "Sub", "Mult", "Div", "Mod", "Equal", "LessThan",
              "OrElse", "AndAlso"}

\* One operator of each level, to put a sub-expression on the right of.
RightOps == {"OrElse", "AndAlso", "Equal", "Add", "Mult"}

\* The operators the sessions on control forms, on layouts and on the
\* renderers write.
FormOps == {"Add"}

LayoutOps == {"OrElse", "Add"}

RenderOps == {"Add", "OrElse"}

MaxHeight == 3

MaxFormHeight == 3

MaxLayoutHeight == 2

MaxRenderHeight == 3

(***************************************************************************)
(* Expr::pretty, the box-drawing renderer.  A line is the sequence of the  *)
(* strings it was put together from, first to last; the box-drawing        *)
(* strings of the source are written in ASCII here:                        *)
(*   TEE  "|--"  the connector of a child that is not the last,            *)
(*   BAR  "|  "  the separator line and the continuation under a TEE,      *)
(*   ELL  "+--"  the connector of the last child,                          *)
(*   GAP  "   "  the continuation under an ELL.                            *)
(* The Vec<String> is kept with an audit of the accesses made to it:       *)
(*   in_bounds  no indexed access was outside the vector (no panic),       *)
(*   aligned    every call of draw was entered with cur = lines.len()      *)
(*              and returned lines.len(),                                  *)
(*   own        every indexed access of a call entered at cur was to a     *)
(*              line at or after cur + 2.                                  *)
(***************************************************************************)
TEE == "|--"

BAR == "|  "

ELL == "+--"

GAP == "   "

\* Display for BinaryOp and for UnaryOp.
BinaryOpText(op) ==
    CASE op = "Add" -> "(+)"
      [] op = "Sub" -> "(-)"
      [] op = "Mult" -> "(*)"
      [] op = "Div" -> "div"
      [] op = "Mod" -> "mod"
      [] op = "Equal" -> "(=)"
      [] op = "LessThan" -> "(<)"
      [] op = "OrElse" -> "orelse"
      [] op = "AndAlso" -> "andalso"

UnaryOpText(op) == CASE op = "Not" -> "not"

NewLines == [lines |-> <<>>, in_bounds |-> TRUE, aligned |-> TRUE, own |-> TRUE]

\* lines.push(line).
push(d, line) == [d EXCEPT !.lines = Append(@, line)]

\* lines[i].insert_str(0, s), made by the call of draw entered at cur; the
\* index i counts from 0.  Out of bounds the program panics.
insert_str(d, cur, i, s) ==
    CHOOSE out \in
      { IF i < Len(x.lines)
        THEN [x EXCEPT !.lines[i + 1] = <<s>> \o @, !.own = @ /\ i >= cur + 2]
        ELSE [x EXCEPT !.in_bounds = FALSE]
        : x \in {d} } : TRUE

RECURSIVE insert_range(_, _, _, _, _)
\* for y in from .. to { lines[y].insert_str(0, s) }
insert_range(d, cur, from, to, s) ==
    IF from >= to THEN d
    ELSE insert_range(insert_str(d, cur, from, s), cur, from + 1, to, s)

\* A variant of prefix_block whose loop stops one line early.
prefix_block_short(d, cur, first, bottom, connector, continuation) ==
    insert_range(insert_str(d, cur, first, connector),
                 cur, first + 1, bottom - 1, continuation)

\* What draw does after a child's block was drawn from line first up to
\* (not including) line bottom: the connector before its first line and the
\* continuation before its other lines.
prefix_block(d, cur, first, bottom, connector, continuation) ==
    insert_range(insert_str(d, cur, first, connector),
                 cur, first + 1, bottom, continuation)

\* A variant of draw_leaf that returns cur, not cur + 1.
draw_leaf_stale(d, cur, label) == [d |-> push(d, <<label>>), ret |-> cur]

\* The arms of Var and Lit: one pushed line.
draw_leaf(d, cur, label) == [d |-> push(d, <<label>>), ret |-> cur + 1]

\* The audit on entry to and on return from a call of draw.
enter(d, cur) == [d EXCEPT !.aligned = @ /\ cur = Len(d.lines)]

leave(r) ==
    CHOOSE out \in
      { [x EXCEPT !.d.aligned = @ /\ x.ret = Len(x.d.lines)] : x \in {r} } : TRUE

RECURSIVE draw(_, _, _), draw_arm(_, _, _), draw_child(_, _, _, _, _, _)

\* A child's block: the child is drawn from line first on, the separator
\* line before it being pushed already, and the lines of its block are
\* prefixed in place.
draw_child(child, d, cur, first, connector, continuation) ==
    CHOOSE out \in
      { [d |-> prefix_block(c.d, cur, first, c.ret, connector, continuation),
         ret |-> c.ret]
        : c \in {draw(child, d, first)} } : TRUE

draw_arm(expr, d, cur) ==
    CASE expr.t = "Var" -> draw_leaf(d, cur, expr.name)
      [] expr.t = "Lit" -> draw_leaf(d, cur, expr.lit)
      [] expr.t = "Unary" ->
            draw_child(expr.child,
                       push(push(d, <<UnaryOpText(expr.operation)>>), <<BAR>>),
                       cur, cur + 2, ELL, GAP)
      [] expr.t = "Binary" ->
            CHOOSE out \in
              { draw_child(expr.right, push(top.d, <<BAR>>),
                           cur, top.ret + 1, ELL, GAP)
                : top \in {draw_child(expr.left,
                               push(push(d, <<BinaryOpText(expr.operation)>>),
                                    <<BAR>>),
                               cur, cur + 2, TEE, BAR)} } : TRUE
      [] expr.t = "IfThenElse" ->
            CHOOSE out \in
              { CHOOSE out2 \in
                  { draw_child(expr.else_branch, push(middle.d, <<BAR>>),
                               cur, middle.ret + 1, ELL, GAP)
                    : middle \in {draw_child(expr.if_branch,
                                      push(top.d, <<BAR>>),
                                      cur, top.ret + 1, TEE, BAR)} } : TRUE
                : top \in {draw_child(expr.condition,
                               push(push(d, <<"if">>), <<BAR>>),
                               cur, cur + 2, TEE, BAR)} } : TRUE
      [] expr.t = "Let" ->
            CHOOSE out \in
              { draw_child(expr.child, push(top.d, <<BAR>>),
                           cur, top.ret + 1, ELL, GAP)
                : top \in {draw_child(expr.binder,
                               push(push(d, <<"let ", expr.name, "=">>),
                                    <<BAR>>),
                               cur, cur + 2, TEE, BAR)} } : TRUE

draw(expr, d, cur) == leave(draw_arm(expr, enter(d, cur), cur))

RECURSIVE join(_, _)
\* lines.join(sep): the strings of the lines with sep between two lines.
join(lines, sep) ==
    IF lines = <<>> THEN <<>>
    ELSE IF Len(lines) = 1 THEN Head(lines)
    ELSE Head(lines) \o <<sep>> \o join(Tail(lines), sep)

pretty(expr) == join(draw(expr, NewLines, 0).d.lines, "\n")

(***************************************************************************)
(* Display for Expr, the indented-outline renderer.  The output is the     *)
(* sequence of the strings written to the formatter, a space of the        *)
(* padding being one string.                                               *)
(***************************************************************************)
RECURSIVE padding(_)
\* iter::repeat(' ').take(indent).collect()
padding(indent) == IF indent <= 0 THEN <<>> ELSE <<" ">> \o padding(indent - 1)

\* A variant of write_line that separates lines instead of ending them.
write_line_joined(indent, label) ==
    (IF indent > 0 THEN <<"\n">> ELSE <<>>) \o padding(indent) \o <<label>>

\* write!(f, "{}{}\n", padding(indent), label)
write_line(indent, label) == padding(indent) \o <<label, "\n">>

RECURSIVE draw_tree(_, _)
draw_tree(expr, indent) ==
    CASE expr.t = "Var" -> write_line(indent, expr.name)
      [] expr.t = "Lit" -> write_line(indent, expr.lit)
      [] expr.t = "Unary" ->
            write_line(indent, UnaryOpText(expr.operation))
                \o draw_tree(expr.child, indent + 3)
      [] expr.t = "Binary" ->
            write_line(indent, BinaryOpText(expr.operation))
                \o draw_tree(expr.left, indent + 3)
                \o draw_tree(expr.right, indent + 3)
      [] expr.t = "IfThenElse" ->
            write_line(indent, "if then else")
                \o draw_tree(expr.condition, indent + 3)
                \o draw_tree(expr.if_branch, indent + 3)
                \o draw_tree(expr.else_branch, indent + 3)
      [] expr.t = "Let" ->
            write_line(indent, "let")
                \o write_line(indent + 3, expr.name)
                \o draw_tree(expr.binder, indent + 3)
                \o draw_tree(expr.child, indent + 3)

fmt(expr) == draw_tree(expr, 0)

(***************************************************************************)
(* The state: a session writes a source expression (src), hands it to the *)
(* lexer (doc, layout, tokens) and to prog (outcome), or renders it with  *)
(* Expr::pretty (drawn, box) or with Display (text).                      *)
(***************************************************************************)
VARIABLES src, doc, layout, tokens, outcome, drawn, box, text, pc

vars == <<src, doc, layout, tokens, outcome, drawn, box, text, pc>>

parsing == <<doc, layout, tokens, outcome>>

rendering == <<drawn, box, text>>

Init ==
    /\ src = Leaf
    /\ doc = Leaf
    /\ layout = Tight
    /\ tokens = <<>>
    /\ outcome = Err(FALSE, 0)
    /\ drawn = [d |-> NewLines, ret |-> 0]
    /\ box = <<>>
    /\ text = <<>>
    /\ pc = "edit"

\* The source expression grows by one node around what is written so far.
Edit(e, bound) ==
    /\ pc = "edit"
    /\ Height(src) < bound
    /\ src' = e
    /\ UNCHANGED <<parsing, rendering, pc>>

WrapLeft(op, bound) == Edit(Binary(src, op, Leaf), bound)

WrapRight(op, bound) == Edit(Binary(Leaf, op, src), bound)

WrapNot(bound) == Edit(Unary("Not", src), bound)

WrapParen(bound) == Edit(Group(src), bound)

WrapIf(slot, bound) ==
    Edit(CASE slot = 1 -> IfThenElse(src, Leaf, Leaf)
           [] slot = 2 -> IfThenElse(Leaf, src, Leaf)
           [] slot = 3 -> IfThenElse(Leaf, Leaf, src), bound)

WrapLet(slot, bound) ==
    Edit(CASE slot = 1 -> Let("x", src, Leaf)
           [] slot = 2 -> Let("x", Leaf, src), bound)

\* The source is lexed under a layout and prog runs on the tokens.
Parse(kind, lay) ==
    /\ pc = "edit"
    /\ doc' = Label(src, kind, 1)
    /\ layout' = lay
    /\ tokens' = Stream(doc', lay)
    /\ outcome' = prog(tokens')
    /\ pc' = "parsed"
    /\ UNCHANGED <<src, rendering>>

\* The same source is lexed again with one gap filled differently.
Reparse(fill) ==
    /\ pc = "parsed"
    /\ fill # layout.fill
    /\ layout' = [layout EXCEPT !.fill = fill]
    /\ tokens' = Stream(doc, layout')
    /\ outcome' = prog(tokens')
    /\ UNCHANGED <<src, doc, rendering, pc>>

\* An Expr (a source expression without parentheses) is rendered.
Pretty(kind) ==
    /\ pc = "edit"
    /\ doc' = Label(src, kind, 1)
    /\ drawn' = draw(doc', NewLines, 0)
    /\ box' = pretty(doc')
    /\ pc' = "pretty"
    /\ UNCHANGED <<src, layout, tokens, outcome, text>>

Display(kind) ==
    /\ pc = "edit"
    /\ doc' = Label(src, kind, 1)
    /\ text' = fmt(doc')
    /\ pc' = "shown"
    /\ UNCHANGED <<src, layout, tokens, outcome, drawn, box>>

\* Operator expressions through prog.
Next ==
    \/ \E op \in BinaryOps : WrapLeft(op, MaxHeight)
    \/ \E op \in RightOps : WrapRight(op, MaxHeight)
    \/ WrapNot(MaxHeight)
    \/ WrapParen(MaxHeight)
    \/ \E kind \in Kinds, lay \in {Tight, Spaced} : Parse(kind, lay)

Spec == Init /\ [][Next]_vars

\* Control forms through prog.
NextForms ==
    \/ \E slot \in 1..3 : WrapIf(slot, MaxFormHeight)
    \/ \E slot \in 1..2 : WrapLet(slot, MaxFormHeight)
    \/ \E op \in FormOps : WrapLeft(op, MaxFormHeight)
    \/ WrapParen(MaxFormHeight)
    \/ \E kind \in Kinds, lay \in {Tight, Spaced} : Parse(kind, lay)

SpecForms == Init /\ [][NextForms]_vars

\* Streams that differ in one gap through prog.
NextLayout ==
    \/ \E op \in LayoutOps : WrapLeft(op, MaxLayoutHeight)
    \/ WrapNot(MaxLayoutHeight)
    \/ WrapParen(MaxLayoutHeight)
    \/ WrapLet(2, MaxLayoutHeight)
    \/ \E kind \in Kinds, gap \in {"none", "one"}, fill \in Fills :
          \E at \in 0..Len(Words(Label(src, kind, 1))) :
              Parse(kind, Layout(gap, at, fill))
    \/ \E fill \in Fills : Reparse(fill)

SpecLayout == Init /\ [][NextLayout]_vars

\* Exprs through the two renderers.
NextRender ==
    \/ \E op \in RenderOps : WrapLeft(op, MaxRenderHeight)
    \/ \E op \in RenderOps : WrapRight(op, MaxRenderHeight)
    \/ WrapNot(MaxRenderHeight)
    \/ \E slot \in 1..3 : WrapIf(slot, MaxRenderHeight)
    \/ \E slot \in 1..2 : WrapLet(slot, MaxRenderHeight)
    \/ \E kind \in Kinds : Pretty(kind)
    \/ \E kind \in Kinds : Display(kind)

SpecRender == Init /\ [][NextRender]_vars

(***************************************************************************)
(* Properties.  Helpers first: what a tree or a stream is made of.         *)
(***************************************************************************)
\* The children of a node in declared order.
Children(e) ==
    CASE e.t \in {"Leaf", "Var", "Lit"} -> <<>>
      [] e.t = "Group" -> <<e.e>>
      [] e.t = "Unary" -> <<e.child>>
      [] e.t = "Binary" -> <<e.left, e.right>>
      [] e.t = "IfThenElse" -> <<e.condition, e.if_branch, e.else_branch>>
      [] e.t = "Let" -> <<e.binder, e.child>>

RECURSIVE Shapes(_)
\* The kinds of node of a tree.
Shapes(e) ==
    {e.t} \cup UNION {Shapes(Children(e)[i]) : i \in 1..Len(Children(e))}

RECURSIVE Ops(_)
\* The operators of a tree.
Ops(e) ==
    (IF e.t \in {"Unary", "Binary"} THEN {e.operation} ELSE {})
        \cup UNION {Ops(Children(e)[i]) : i \in 1..Len(Children(e))}

RECURSIVE Nodes(_)
Nodes(e) ==
    CASE e.t \in {"Var", "Lit"} -> 1
      [] e.t = "Unary" -> 1 + Nodes(e.child)
      [] e.t = "Binary" -> 1 + Nodes(e.left) + Nodes(e.right)
      [] e.t = "IfThenElse" ->
            1 + Nodes(e.condition) + Nodes(e.if_branch) + Nodes(e.else_branch)
      [] e.t = "Let" -> 1 + Nodes(e.binder) + Nodes(e.child)

RECURSIVE LetNodes(_)
LetNodes(e) ==
    CASE e.t \in {"Var", "Lit"} -> 0
      [] e.t = "Unary" -> LetNodes(e.child)
      [] e.t = "Binary" -> LetNodes(e.left) + LetNodes(e.right)
      [] e.t = "IfThenElse" ->
            LetNodes(e.condition) + LetNodes(e.if_branch)
                + LetNodes(e.else_branch)
      [] e.t = "Let" -> 1 + LetNodes(e.binder) + LetNodes(e.child)

\* A binary node of a folding level whose right child is of the same level.
RightFolded(e) ==
    /\ e.t = "Binary" /\ LevelOf(e.operation) # "cmp"
    /\ e.right.t = "Binary"
    /\ LevelOf(e.right.operation) = LevelOf(e.operation)

\* A comparison with a comparison as a child.
CmpOfCmp(e) ==
    /\ e.t = "Binary" /\ LevelOf(e.operation) = "cmp"
    /\ \E c \in {e.left, e.right} :
          c.t = "Binary" /\ LevelOf(c.operation) = "cmp"

\* A not whose child is a not.
NotOfNot(e) == e.t = "Unary" /\ e.child.t = "Unary"

RECURSIVE SomeRightFolded(_), SomeCmpOfCmp(_), SomeNotOfNot(_)
SomeRightFolded(e) ==
    RightFolded(e)
        \/ \E i \in 1..Len(Children(e)) : SomeRightFolded(Children(e)[i])

SomeCmpOfCmp(e) ==
    CmpOfCmp(e) \/ \E i \in 1..Len(Children(e)) : SomeCmpOfCmp(Children(e)[i])

SomeNotOfNot(e) ==
    NotOfNot(e) \/ \E i \in 1..Len(Children(e)) : SomeNotOfNot(Children(e)[i])

NoParen(toks) == \A i \in 1..Len(toks) : toks[i].k # "Paren"

IsWord(tk) == tk.k \notin {"Space", "EndOfFile"}

\* The tokens of a stream that are neither whitespace nor the end of input.
WordsOf(toks) == SelectSeq(toks, IsWord)

\* prog took the whole stream.
Complete == outcome.ok /\ outcome.pos = Len(tokens) + 1

\* A source whose lexed stream meets none of the places where the engine
\* is strict about whitespace: no not without a whitespace run after it,
\* and no whitespace run where an orelse stands.
Plain ==
    /\ layout \in {Tight, Spaced}
    /\ layout = Tight => "Unary" \notin Shapes(doc)
    /\ layout = Spaced => "OrElse" \notin Ops(doc)

\* x c1 y c2 z with x, y, z add-level operands.
CmpChain(e) ==
    /\ CmpOfCmp(e) /\ e.left.t = "Binary" /\ LevelOf(e.left.operation) = "cmp"
    /\ Derivable(e.left) /\ Derivable(e.right)
    /\ Rank(e.right) >= LevelRank("add")

(***************************************************************************)
(* C1.  Every token stream that derives prog ::= expn EOF, its tokens      *)
(* separated by nothing or by one whitespace run, is accepted: prog        *)
(* succeeds with the AST of the derivation and consumes the whole stream.  *)
(* The engine does not do this: see C1_FailingInput.                       *)
(***************************************************************************)
C1_AcceptsGrammar ==
    pc = "parsed" /\ Derivable(doc) /\ layout.fill # "zero"
        => Complete /\ outcome.v = Erase(doc)

\* A whitespace run and a name: prog fails, committed, at the name.
C1_FailingInput ==
    /\ pc = "parsed"
    /\ tokens = <<Space(1), Name("a"), EndOfFile>>
    /\ outcome = Err(TRUE, 2)

(***************************************************************************)
(* C2.  Two streams of the same words that differ in what stands in one    *)
(* gap (nothing, a whitespace run of length 0, or one of positive length)  *)
(* have the same outcome: both fail, or both succeed with the same AST.    *)
(* The engine does not do this: see C2_FailingInput.                       *)
(***************************************************************************)
C2_GapsAgree ==
    [][pc = "parsed" /\ pc' = "parsed" /\ doc' = doc
         => outcome'.ok = outcome.ok /\ outcome'.v = outcome.v]_vars

\* a orelse 1 with a whitespace run of positive length after orelse: prog
\* fails, and succeeds on the same words without it.
C2_FailingInput ==
    /\ pc = "parsed"
    /\ tokens = <<LitTok("1"), Keyword("OrElse"), Space(1), LitTok("2"),
                  EndOfFile>>
    /\ ~outcome.ok
    /\ prog(<<LitTok("1"), Keyword("OrElse"), LitTok("2"), EndOfFile>>).ok

(***************************************************************************)
(* C3.  disj, conj, add and mult fold to the left: the AST of a stream     *)
(* without parentheses holds the words of the stream in their order (a     *)
(* single operand comes back unwrapped), and in it no node of a folding    *)
(* level has a node of the same level as its right child; a chain of       *)
(* operands is accepted whatever its length.                               *)
(***************************************************************************)
C3_LeftAssociative ==
    pc = "parsed" =>
        /\ (outcome.ok /\ NoParen(tokens)) =>
              /\ Words(outcome.v) = WordsOf(tokens)
              /\ ~SomeRightFolded(outcome.v)
        /\ (Shapes(doc) \subseteq {"Var", "Lit", "Binary"}
              /\ Ops(doc) \cap {"Equal", "LessThan"} = {} /\ Plain) => Complete

\* a - b - c is parsed to Binary{Binary{a, Sub, b}, Sub, c}.
C3_Witness ==
    /\ pc = "parsed"
    /\ WordsOf(tokens) = <<Name("a"), Keyword("Sub"), Name("b"),
                           Keyword("Sub"), Name("c")>>
    /\ outcome.ok
    /\ outcome.v = Binary(Binary(Var("a"), "Sub", Var("b")), "Sub", Var("c"))

(***************************************************************************)
(* C4.  Comparison does not chain.  On x c1 y c2 z, c1 and c2 comparison   *)
(* operators and x, y, z add-level operands, prog fails; cmp, when the     *)
(* stream is plain, consumes x c1 y, yields Binary{x, c1, y} and stops at  *)
(* c2.  On a single add-level operand cmp returns what add returns.  No    *)
(* AST of a stream without parentheses has a comparison as a child of a    *)
(* comparison.                                                             *)
(***************************************************************************)
C4_NoChain ==
    pc = "parsed" =>
        /\ CmpChain(doc) =>
              /\ ~outcome.ok
              /\ Plain => \A r \in {cmp(tokens, 1)} :
                    /\ r.ok /\ r.v = Erase(doc.left)
                    /\ tokens[r.pos] = Keyword(doc.operation)
                    /\ WordsOf(SubSeq(tokens, 1, r.pos - 1))
                          = Words(doc.left)
        /\ (Derivable(doc) /\ Rank(doc) >= LevelRank("add")) =>
              \A r \in {add(tokens, 1)} : cmp(tokens, 1) = r
        /\ (outcome.ok /\ NoParen(tokens)) => ~SomeCmpOfCmp(outcome.v)

\* a = b = c: cmp takes a = b, prog fails.
C4_Witness ==
    /\ pc = "parsed"
    /\ tokens = <<Name("a"), Keyword("Equal"), Name("b"), Keyword("Equal"),
                  Name("c"), EndOfFile>>
    /\ ~outcome.ok
    /\ cmp(tokens, 1) = Ok(Binary(Var("a"), "Equal", Var("b")), 4)

(***************************************************************************)
(* C5.  The levels bind, loosest first: orelse; andalso; = and <; + and -; *)
(* times, div and mod; not; atom.  A successful parse of a derivation of   *)
(* the grammar returns the AST of that derivation, whole stream consumed;  *)
(* the AST of a stream without parentheses is itself a derivation (no      *)
(* looser operator under a tighter one); a plain derivation is accepted.   *)
(* 1 + 2 * 3, once parsed, is Binary{1, Add, Binary{2, Mult, 3}} and       *)
(* not a andalso b orelse c is                                             *)
(* Binary{Binary{Unary{Not, a}, AndAlso, b}, OrElse, c}.                   *)
(***************************************************************************)
OnePlusTwoTimesThree ==
    Binary(Lit("1"), "Add", Binary(Lit("2"), "Mult", Lit("3")))

NotAAndAlsoBOrElseC ==
    Binary(Binary(Unary("Not", Var("a")), "AndAlso", Var("b")),
           "OrElse", Var("c"))

C5_Precedence ==
    pc = "parsed" =>
        /\ (Derivable(doc) /\ outcome.ok) =>
              outcome.v = Erase(doc) /\ outcome.pos = Len(tokens) + 1
        /\ (outcome.ok /\ NoParen(tokens)) => Derivable(outcome.v)
        /\ (Derivable(doc) /\ Plain) => Complete
        /\ (outcome.ok /\ WordsOf(tokens) = Words(OnePlusTwoTimesThree))
              => outcome.v = OnePlusTwoTimesThree
        /\ (outcome.ok /\ WordsOf(tokens) = Words(NotAAndAlsoBOrElseC))
              => outcome.v = NotAAndAlsoBOrElseC

\* 1 + 2 * 3 is parsed to Binary{1, Add, Binary{2, Mult, 3}}.
C5_Witness ==
    /\ pc = "parsed"
    /\ WordsOf(tokens) = <<LitTok("1"), Keyword("Add"), LitTok("2"),
                           Keyword("Mult"), LitTok("3")>>
    /\ outcome.ok
    /\ outcome.v = OnePlusTwoTimesThree

\* not a andalso b orelse c is parsed to
\* Binary{Binary{Unary{Not, a}, AndAlso, b}, OrElse, c}.
C5_NotAndOr ==
    /\ pc = "parsed"
    /\ WordsOf(tokens) = <<Keyword("Not"), Name("a"), Keyword("AndAlso"),
                           Name("b"), Keyword("OrElse"), Name("c")>>
    /\ outcome.ok
    /\ outcome.v = NotAAndAlsoBOrElseC

(***************************************************************************)
(* C6.  The let form and the if form nest to the right: a derivation whose *)
(* root is an if or a let is accepted and every sub-expression of the form *)
(* comes back as the child it was written as, a nested form included.      *)
(***************************************************************************)
C6_FormsNest ==
    (pc = "parsed" /\ Derivable(doc) /\ doc.t \in {"IfThenElse", "Let"})
        => Complete /\ outcome.v = Erase(doc)

\* if a then if b then c else d else e is parsed to
\* IfThenElse{a, IfThenElse{b, c, d}, e}.
C6_Witness ==
    /\ pc = "parsed"
    /\ doc.t = "IfThenElse" /\ doc.if_branch.t = "IfThenElse"
    /\ outcome.ok
    /\ outcome.v = IfThenElse(Var("a"),
                              IfThenElse(Var("b"), Var("c"), Var("d")),
                              Var("e"))

\* An if form as the else branch of an if form.
C6_ElseIf ==
    /\ pc = "parsed"
    /\ outcome.ok
    /\ outcome.v = IfThenElse(Var("a"), Var("b"),
                              IfThenElse(Var("c"), Var("d"), Var("e")))

(***************************************************************************)
(* C7.  not does not stack.  On not not x the unary form fails at the      *)
(* second not, nega fails where it started without having consumed input,  *)
(* and prog fails; an AST has a not as the child of a not only if the      *)
(* stream has parentheses.                                                 *)
(***************************************************************************)
C7_NotDoesNotStack ==
    pc = "parsed" =>
        /\ NotOfNot(doc) =>
              /\ ~outcome.ok
              /\ \A u \in {unary(tokens, 1)} :
                    ~u.ok /\ u.pos > 1 /\ tokens[u.pos] = Keyword("Not")
              /\ nega(tokens, 1) = Err(FALSE, 1)
              /\ ~atom(tokens, 1).ok
        /\ (outcome.ok /\ SomeNotOfNot(outcome.v)) => ~NoParen(tokens)

\* not not a, a whitespace run after each not: prog fails.
C7_Witness ==
    /\ pc = "parsed"
    /\ tokens = <<Keyword("Not"), Space(1), Keyword("Not"), Space(1),
                  Name("a"), EndOfFile>>
    /\ ~outcome.ok

(***************************************************************************)
(* C8.  Expr::pretty, which prefixes pushed lines in place, yields the     *)
(* lines of the bottom-up composition Block: the label line of the node,   *)
(* then for each child in declared order a separator line and the child's  *)
(* block, its first line prefixed with the connector and its other lines   *)
(* with the continuation of its position (last child or not).              *)
(***************************************************************************)
LabelLine(e) ==
    CASE e.t = "Var" -> <<e.name>>
      [] e.t = "Lit" -> <<e.lit>>
      [] e.t = "Unary" -> <<UnaryOpText(e.operation)>>
      [] e.t = "Binary" -> <<BinaryOpText(e.operation)>>
      [] e.t = "IfThenElse" -> <<"if">>
      [] e.t = "Let" -> <<"let ", e.name, "=">>

Prefixed(block, last) ==
    [i \in 1..Len(block) |->
        <<IF i = 1 THEN (IF last THEN ELL ELSE TEE)
          ELSE (IF last THEN GAP ELSE BAR)>> \o block[i]]

RECURSIVE Block(_), Blocks(_, _)
Blocks(cs, k) ==
    IF k > Len(cs) THEN <<>>
    ELSE CHOOSE out \in
           { <<<<BAR>>>> \o Prefixed(b, k = Len(cs)) \o Blocks(cs, k + 1)
             : b \in {Block(cs[k])} } : TRUE

Block(e) == <<LabelLine(e)>> \o Blocks(Children(e), 1)

C8_BottomUp ==
    pc = "pretty" =>
        /\ drawn.d.in_bounds
        /\ drawn.d.lines = Block(doc)
        /\ box = join(Block(doc), "\n")

\* Binary{a, Add, Binary{b, Add, c}}: the block of the right child has
\* five lines, prefixed in place after it was drawn.
C8_Witness ==
    /\ pc = "pretty"
    /\ doc = Binary(Var("a"), "Add", Binary(Var("b"), "Add", Var("c")))
    /\ drawn.d.lines = << <<"(+)">>, <<BAR>>, <<TEE, "a">>, <<BAR>>,
                          <<ELL, "(+)">>, <<GAP, BAR>>, <<GAP, TEE, "b">>,
                          <<GAP, BAR>>, <<GAP, ELL, "c">> >>

\* Binary{x, Add, y} with leaf children: (+), |--x, +--y between separators.
C8_Leaves ==
    /\ pc = "pretty"
    /\ doc = Binary(Var("a"), "Add", Var("b"))
    /\ box = <<"(+)", "\n", BAR, "\n", TEE, "a", "\n", BAR, "\n", ELL, "b">>

(***************************************************************************)
(* C9.  Display for Expr writes the nodes in pre-order, children in        *)
(* declared order: a node at depth d gives one line, its label after 3*d   *)
(* spaces; a Let gives its name on a line of its own after 3*(d+1) spaces  *)
(* before its binder and child; every line ends with a line terminator;    *)
(* the lines are as many as the nodes plus the Let nodes.                  *)
(***************************************************************************)
OutlineLabel(e) ==
    CASE e.t = "Var" -> e.name
      [] e.t = "Lit" -> e.lit
      [] e.t = "Unary" -> UnaryOpText(e.operation)
      [] e.t = "Binary" -> BinaryOpText(e.operation)
      [] e.t = "IfThenElse" -> "if then else"
      [] e.t = "Let" -> "let"

Row(indent, label) == [indent |-> indent, label |-> <<label>>]

RECURSIVE Outline(_, _), Outlines(_, _, _)
Outlines(cs, depth, k) ==
    IF k > Len(cs) THEN <<>>
    ELSE Outline(cs[k], depth) \o Outlines(cs, depth, k + 1)

Outline(e, depth) ==
    <<Row(3 * depth, OutlineLabel(e))>>
        \o (IF e.t = "Let" THEN <<Row(3 * (depth + 1), e.name)>> ELSE <<>>)
        \o Outlines(Children(e), depth + 1, 1)

\* The places of the line terminators of an output.
Terminators(out) == {i \in 1..Len(out) : out[i] = "\n"}

\* The line that the terminator at i ends.
LineBefore(out, i) ==
    SubSeq(out, 1 + Cardinality({j \in 1..(i - 1) : \E t \in Terminators(out) :
                                     j <= t /\ t < i}), i - 1)

\* The number of spaces a line starts with.
Indent(line) ==
    Cardinality({j \in 1..Len(line) : \A m \in 1..j : line[m] = " "})

\* The lines of an output, each as its indent and what follows it.
Decoded(out) ==
    [k \in 1..Cardinality(Terminators(out)) |->
        LET i == CHOOSE t \in Terminators(out) :
                     Cardinality({u \in Terminators(out) : u <= t}) = k
            line == LineBefore(out, i)
        IN  [indent |-> Indent(line),
             label |-> SubSeq(line, Indent(line) + 1, Len(line))]]

C9_Outline ==
    pc = "shown" =>
        /\ text # <<>> /\ text[Len(text)] = "\n"
        /\ Decoded(text) = Outline(doc, 0)
        /\ Cardinality(Terminators(text)) = Nodes(doc) + LetNodes(doc)

\* A Let under a Binary: the name is on a line of its own, two levels in.
C9_Witness ==
    /\ pc = "shown"
    /\ doc = Binary(Let("x", Var("a"), Var("b")), "Add", Var("c"))
    /\ Decoded(text) = <<Row(0, "(+)"), Row(3, "let"), Row(6, "x"),
                         Row(6, "a"), Row(6, "b"), Row(3, "c")>>

(***************************************************************************)
(* C10.  In Expr::pretty every call draw(expr, lines, cur) is entered with *)
(* cur = lines.len() and returns lines.len(); every indexed access is in   *)
(* bounds and to a line pushed by the subtree of the call; the output has  *)
(* 2 * N - 1 lines for an AST of N nodes.                                  *)
(***************************************************************************)
C10_CursorIsLength ==
    pc = "pretty" =>
        /\ drawn.d.aligned
        /\ drawn.d.in_bounds
        /\ drawn.d.own
        /\ drawn.ret = Len(drawn.d.lines)
        /\ Len(drawn.d.lines) = 2 * Nodes(doc) - 1

\* An if form whose condition is a binary node: lines[top + 1] and
\* lines[middle + 1] are reached after a block of more than one line.
C10_Witness ==
    /\ pc = "pretty"
    /\ doc.t = "IfThenElse" /\ doc.condition.t = "Binary"
    /\ Len(drawn.d.lines) = 11
    /\ drawn.ret = 11
====
